---- MODULE Spec2Model ----
(***************************************************************************)
(* A model of the paged B+tree table engine of src/main.c: the pager with  *)
(* its lazily loaded page slots and write-back at close, the leaf and      *)
(* internal node operations with their splits, root creation, the cursor   *)
(* scan, and the REPL commands insert / select / .btree / .exit.           *)
(*                                                                         *)
(* A page is a record of the header fields and the two cell arrays that    *)
(* the code lays over the same 4096 bytes.  The aliasing of the two views  *)
(* is modelled where the code reads a page through the other view: the     *)
(* num_cells/num_keys word is one field (num), the next_leaf/right_child   *)
(* word is one field (link), and the first leaf key shares its bytes with  *)
(* the first internal child pointer.                                       *)
(*                                                                         *)
(* Every function of the code that fetches a page takes the pager and      *)
(* returns the pager it leaves behind; a fatal exit() or a failed assert() *)
(* sets the field fatal, after which nothing more is done.  The field      *)
(* calls is a history of the current insert statement: for each call of    *)
(* create_new_root and internal_node_split_and_insert that has returned,   *)
(* its arguments and the pager as the call found it and as it left it.     *)
(***************************************************************************)
EXTENDS Integers, Sequences, FiniteSets, Bags, TLC

(***************************************************************************)
(* Program constants                                                       *)
(***************************************************************************)
COLUMN_USERNAME_SIZE == 32
COLUMN_EMAIL_SIZE == 255
TABLE_MAX_PAGES == 100
\* UINT32_MAX; written as -1, the same 32-bit pattern, and compared as
\* unsigned by UGT below
INVALID_PAGE_NUM == -1
PAGE_SIZE == 4096
ID_SIZE == 4
USERNAME_SIZE == COLUMN_USERNAME_SIZE + 1
EMAIL_SIZE == COLUMN_EMAIL_SIZE + 1
ROW_SIZE == ID_SIZE + USERNAME_SIZE + EMAIL_SIZE
COMMON_NODE_HEADER_SIZE == 6
LEAF_NODE_HEADER_SIZE == COMMON_NODE_HEADER_SIZE + 4 + 4
LEAF_NODE_KEY_SIZE == 4
LEAF_NODE_CELL_SIZE == LEAF_NODE_KEY_SIZE + ROW_SIZE
LEAF_NODE_SPACE_FOR_CELLS == PAGE_SIZE - LEAF_NODE_HEADER_SIZE
LEAF_NODE_MAX_CELLS == LEAF_NODE_SPACE_FOR_CELLS \div LEAF_NODE_CELL_SIZE
\* LEAF_NODE_RIGHT_SPLIT_COUNT that leaves the inserted cell out of the count
LEAF_NODE_RIGHT_SPLIT_COUNT_without_new_cell == LEAF_NODE_MAX_CELLS \div 2
LEAF_NODE_RIGHT_SPLIT_COUNT == (LEAF_NODE_MAX_CELLS + 1) \div 2
LEAF_NODE_LEFT_SPLIT_COUNT == (LEAF_NODE_MAX_CELLS + 1) - LEAF_NODE_RIGHT_SPLIT_COUNT
INTERNAL_NODE_MAX_CELLS == 3
NODE_INTERNAL == "NODE_INTERNAL"
NODE_LEAF == "NODE_LEAF"
EXECUTE_SUCCESS == "EXECUTE_SUCCESS"
EXECUTE_DUPLICATE_KEY == "EXECUTE_DUPLICATE_KEY"

\* a > b on uint32_t values
UGT(a, b) == IF a < 0 THEN (b >= 0 \/ a > b) ELSE (b >= 0 /\ a > b)
UGE(a, b) == a = b \/ UGT(a, b)

(***************************************************************************)
(* Bounds of the model                                                     *)
(***************************************************************************)
\* fresh ids are Pivot, Pivot+1, ... (ascending) and Pivot-1, ..., 0
\* (descending), interleaved in any order
Pivot == 3
\* number of insert statements with a fresh id in one behaviour
MaxInserts == 36
\* number of insert statements that repeat an id already tried
MaxDups == 1
\* number of times the database file is opened again
MaxReopens == 1
\* statements after the first repeated id or reopen
MaxTail == 2
\* number of insert statements of a session that only inserts ascending ids
MaxBulk == 390
\* number of insert statements of a session with rows of all lengths
MaxRows == 20
\* number of insert statements with even ids of a session that leaves gaps
MaxEven == 24
\* a session that grows a deep tree: DeepFirst insert statements with the
\* ascending ids DeepGap, 2 * DeepGap, ..., then ascending ids just above one
\* of those, MaxDeep insert statements in all
DeepFirst == 70
DeepGap == 1000
MaxDeep == 130
\* pages the scan loop of execute_select moves through
MaxScan == 120

VARIABLES
  pager,     \* Pager: pages, num_pages, file_length, and behind
             \* file_descriptor the database file, a sequence of pages
  fill,      \* what the 32-bit words of malloc'ed memory read as in this run
  status,    \* "running", "closed" (after .exit) or "fatal" (after exit() in an operation)
  last,      \* the last statement: its kind, row, result and output
  lo, hi,    \* the input driver: ids lo..hi-1 have been tried
  dups, reopens,   \* how many repeated ids / reopens were used
  tail,      \* statements since the first repeated id or reopen
  stored,    \* bag of the rows whose insert returned EXECUTE_SUCCESS in this file's history
  ondisk,    \* the value of stored at the last db_close
  file0      \* the file as it was at the last db_open

vars == <<pager, fill, status, last, lo, hi, dups, reopens, tail, stored, ondisk, file0>>

\* the database file
file == pager.file

(***************************************************************************)
(* Rows and pages                                                          *)
(***************************************************************************)
\* a fixed buffer of size bytes holding the characters text followed by
\* NULs (strncpy pads); chars are non-zero naturals
Buf(text, size) == [text |-> text, size |-> size]

\* what printf("%s") prints from a buffer written by strncpy(dest, s, size)
CStr(buf) == IF Len(buf.text) < buf.size THEN buf.text ELSE buf.text \o <<0 - 1>>

\* the words of memory that malloc returned and nothing has written yet
GarbageRow(f) == [id |-> f, username |-> Buf(<<>>, USERNAME_SIZE), email |-> Buf(<<>>, EMAIL_SIZE)]
GarbageCell(f) == [key |-> f, value |-> GarbageRow(f)]
GarbageICell(f) == [child |-> f, key |-> f]

LeafIdx == 0 .. (LEAF_NODE_MAX_CELLS - 1)
\* the (child, key) cells whose bytes the code can touch: cells
\* 0..INTERNAL_NODE_MAX_CELLS (update_internal_node_key writes the key of
\* cell num_keys when the old key belongs to the right child)
ICellIdx == 0 .. INTERNAL_NODE_MAX_CELLS

\* void* page = malloc(PAGE_SIZE)
MallocPage(f) ==
  [type |-> "garbage", is_root |-> (f # 0), parent |-> f, num |-> f, link |-> f,
   cells |-> [i \in LeafIdx |-> GarbageCell(f)],
   icells |-> [i \in ICellIdx |-> GarbageICell(f)]]

NULL == [type |-> "NULL"]

\* the slots of pager->pages that get_page lets through: its guard is
\* page_num > TABLE_MAX_PAGES, so slot TABLE_MAX_PAGES, one past the end of
\* the array, is read and written too.  That slot lies in the Pager block
\* malloc returned and reads as a null pointer in the runs that get there
\* (those in which fresh memory reads as zeros).
PageIdx == 0 .. TABLE_MAX_PAGES

get_node_type(node) == node.type
is_node_root(node) == node.is_root
leaf_node_num_cells(node) == node.num
internal_node_num_keys(node) == node.num
leaf_node_next_leaf(node) == node.link
internal_node_right_child(node) == node.link
node_parent(node) == node.parent

\* the key of leaf cell cell_num.  Leaf cell 0 starts at LEAF_NODE_HEADER_SIZE
\* = INTERNAL_NODE_HEADER_SIZE = 14, so in a page that holds an internal node
\* the bytes of leaf key 0 are the bytes of child pointer 0; the other leaf
\* keys (offset 14 + 297 * cell_num) lie beyond the internal cells and keep
\* what the page held as a leaf.
leaf_node_key(node, cell_num) ==
  IF node.type = NODE_INTERNAL /\ cell_num = 0
    THEN node.icells[0].child
    ELSE node.cells[cell_num].key

leaf_node_value(node, cell_num) == node.cells[cell_num].value

internal_node_key(node, key_num) == node.icells[key_num].key

\* the bytes of leaf cell 0 (key, id, first bytes of username) seen as
\* internal cells: cell 0 is (key, id), cells 1.. are username bytes
UsernameWord(buf, k) ==
  LET byte(b) == IF b < Len(buf.text) THEN buf.text[b + 1] ELSE 0
  IN byte(4 * k) + 256 * byte(4 * k + 1) + 65536 * byte(4 * k + 2)
     + 16777216 * byte(4 * k + 3)
LeafBytesAsICells(node) ==
  [i \in ICellIdx |->
     IF i = 0 THEN [child |-> node.cells[0].key, key |-> node.cells[0].value.id]
     ELSE [child |-> UsernameWord(node.cells[0].value.username, 2 * (i - 1)),
           key |-> UsernameWord(node.cells[0].value.username, 2 * (i - 1) + 1)]]

\* internal_node_child(node, child_num) either exits or returns a slot
internal_node_child_exits(node, child_num) ==
  IF UGT(child_num, node.num) THEN TRUE
  ELSE IF child_num = node.num THEN node.link = INVALID_PAGE_NUM
  ELSE node.icells[child_num].child = INVALID_PAGE_NUM

internal_node_child(node, child_num) ==
  IF child_num = node.num THEN node.link ELSE node.icells[child_num].child

init_internal_node(node) ==
  [node EXCEPT !.type = NODE_INTERNAL, !.is_root = FALSE, !.num = 0,
               !.link = INVALID_PAGE_NUM,
               !.icells = IF node.type = NODE_LEAF THEN LeafBytesAsICells(node) ELSE @]

init_leaf_node(node) ==
  [node EXCEPT !.type = NODE_LEAF, !.is_root = FALSE, !.num = 0,
               !.link = INVALID_PAGE_NUM]

set_node_root(node, is_root) == [node EXCEPT !.is_root = is_root]

\* serialize_row that copies COLUMN_USERNAME_SIZE bytes of the username
serialize_row_short_username(row) ==
  [id |-> row.id,
   username |-> Buf(SubSeq(row.username, 1, IF Len(row.username) < COLUMN_USERNAME_SIZE THEN Len(row.username) ELSE COLUMN_USERNAME_SIZE), COLUMN_USERNAME_SIZE),
   email |-> Buf(SubSeq(row.email, 1, IF Len(row.email) < EMAIL_SIZE THEN Len(row.email) ELSE EMAIL_SIZE), EMAIL_SIZE)]

serialize_row(row) ==
  [id |-> row.id,
   username |-> Buf(SubSeq(row.username, 1, IF Len(row.username) < USERNAME_SIZE THEN Len(row.username) ELSE USERNAME_SIZE), USERNAME_SIZE),
   email |-> Buf(SubSeq(row.email, 1, IF Len(row.email) < EMAIL_SIZE THEN Len(row.email) ELSE EMAIL_SIZE), EMAIL_SIZE)]

\* the row as print_row shows it after deserialize_row
deserialize_row(source) ==
  [id |-> source.id, username |-> CStr(source.username), email |-> CStr(source.email)]

(***************************************************************************)
(* Pager                                                                   *)
(***************************************************************************)
Fatal(pg) == [pg EXCEPT !.fatal = TRUE]
\* the return of a call of fn(table, args) that found the pager pg and
\* leaves the pager res: the call is added to the history
Returned(fn, args, pg, res) ==
  [res EXCEPT !.calls = Append(@, [fn |-> fn, args |-> args,
                                   before |-> [pg EXCEPT !.calls = <<>>],
                                   after |-> [res EXCEPT !.calls = <<>>]])]
SetPage(pg, n, node) == [pg EXCEPT !.pages[n] = node]

\* get_page that writes a page it allocates beyond the end of the file
\* through to the file
get_page_write_through(pg, page_num) ==
  IF pg.fatal THEN pg
  ELSE IF UGT(page_num, TABLE_MAX_PAGES) THEN Fatal(pg)
  ELSE IF pg.pages[page_num] = NULL THEN
    LET num_pages == (pg.file_length \div PAGE_SIZE)
                     + (IF pg.file_length % PAGE_SIZE # 0 THEN 1 ELSE 0)
        page == IF page_num <= num_pages /\ page_num < Len(pg.file)
                  THEN pg.file[page_num + 1]
                  ELSE MallocPage(fill)
    IN [pg EXCEPT !.pages[page_num] = page,
                  !.num_pages = IF page_num >= @ THEN page_num + 1 ELSE @,
                  !.file = IF page_num = Len(pg.file) THEN Append(@, page) ELSE @]
  ELSE pg

\* get_page that sets num_pages to page_num + 1 for every page it loads
get_page_sets_num_pages(pg, page_num) ==
  IF pg.fatal THEN pg
  ELSE IF UGT(page_num, TABLE_MAX_PAGES) THEN Fatal(pg)
  ELSE IF pg.pages[page_num] = NULL THEN
    LET num_pages == (pg.file_length \div PAGE_SIZE)
                     + (IF pg.file_length % PAGE_SIZE # 0 THEN 1 ELSE 0)
        page == IF page_num <= num_pages /\ page_num < Len(pg.file)
                  THEN pg.file[page_num + 1]
                  ELSE MallocPage(fill)
    IN [pg EXCEPT !.pages[page_num] = page, !.num_pages = page_num + 1]
  ELSE pg

get_page(pg, page_num) ==
  IF pg.fatal THEN pg
  ELSE IF UGT(page_num, TABLE_MAX_PAGES) THEN Fatal(pg)
  ELSE IF pg.pages[page_num] = NULL THEN
    LET num_pages == (pg.file_length \div PAGE_SIZE)
                     + (IF pg.file_length % PAGE_SIZE # 0 THEN 1 ELSE 0)
        \* read() past the end of the file reads nothing
        page == IF page_num <= num_pages /\ page_num < Len(pg.file)
                  THEN pg.file[page_num + 1]
                  ELSE MallocPage(fill)
    IN [pg EXCEPT !.pages[page_num] = page,
                  !.num_pages = IF page_num >= @ THEN page_num + 1 ELSE @]
  ELSE pg

get_unused_page_num(pg) == [pg |-> [pg EXCEPT !.num_pages = @ + 1], v |-> pg.num_pages]

\* *node_parent(node) = parent, *internal_node_right_child(node) = child and
\* *internal_node_num_keys(node) = num_keys on the node in page page_num
SetParent(pg, page_num, parent) ==
  SetPage(pg, page_num, [pg.pages[page_num] EXCEPT !.parent = parent])
SetRightChild(pg, page_num, child) ==
  SetPage(pg, page_num, [pg.pages[page_num] EXCEPT !.link = child])
SetNumKeys(pg, page_num, num_keys) ==
  SetPage(pg, page_num, [pg.pages[page_num] EXCEPT !.num = num_keys])
\* (*internal_node_num_keys(node))--
DecrementNumKeys(pg, page_num) ==
  SetPage(pg, page_num, [pg.pages[page_num] EXCEPT !.num = @ - 1])

RECURSIVE get_node_max_key(_, _)
\* get_node_max_key on the node in page page_num
get_node_max_key_at(pg, page_num) ==
  IF pg.fatal THEN [pg |-> pg, v |-> 0]
  ELSE get_node_max_key(pg, pg.pages[page_num])

get_node_max_key(pg, node) ==
  IF pg.fatal THEN [pg |-> pg, v |-> 0]
  ELSE IF get_node_type(node) = NODE_LEAF THEN
    [pg |-> pg,
     v |-> IF leaf_node_num_cells(node) = 0 THEN 0
           ELSE leaf_node_key(node, leaf_node_num_cells(node) - 1)]
  ELSE get_node_max_key_at(get_page(pg, internal_node_right_child(node)),
                           internal_node_right_child(node))

(***************************************************************************)
(* Lookup                                                                  *)
(***************************************************************************)
\* the binary search loop of leaf_node_find
RECURSIVE leaf_node_find_loop(_, _, _, _)
leaf_node_find_loop(node, key, min, max) ==
  IF max = min THEN min
  ELSE LET index == (min + max) \div 2
           key_at_index == leaf_node_key(node, index)
       IN IF key = key_at_index THEN index
          ELSE IF UGT(key_at_index, key)
            THEN leaf_node_find_loop(node, key, min, index)
            ELSE leaf_node_find_loop(node, key, index + 1, max)

\* a Cursor; end_of_table is not set by the find functions (malloc'ed)
Cursor(page_num, cell_num) ==
  [page_num |-> page_num, cell_num |-> cell_num, end_of_table |-> (fill # 0)]

leaf_node_find(pg, page_num, key) ==
  LET pg1 == get_page(pg, page_num)
  IN IF pg1.fatal THEN [pg |-> pg1, v |-> Cursor(page_num, 0)]
     ELSE LET node == pg1.pages[page_num]
              num_cells == leaf_node_num_cells(node)
          IN [pg |-> pg1,
              v |-> Cursor(page_num, leaf_node_find_loop(node, key, 0, num_cells))]

RECURSIVE internal_node_find_child_loop(_, _, _, _)
internal_node_find_child_loop(node, key, min, max) ==
  IF min = max THEN min
  ELSE LET mid == (min + max) \div 2
           key_to_right == internal_node_key(node, mid)
       IN IF UGE(key_to_right, key)
            THEN internal_node_find_child_loop(node, key, min, mid)
            ELSE internal_node_find_child_loop(node, key, mid + 1, max)

internal_node_find_child(node, key) ==
  internal_node_find_child_loop(node, key, 0, internal_node_num_keys(node))

RECURSIVE internal_node_find(_, _, _)
\* the switch of internal_node_find on the type of the child, pg being the
\* pager after get_page(child_num)
internal_node_find_switch(pg, page_num, child_num, key) ==
  IF pg.fatal THEN [pg |-> pg, v |-> Cursor(page_num, 0)]
  ELSE IF get_node_type(pg.pages[child_num]) = NODE_INTERNAL
    THEN internal_node_find(pg, child_num, key)
  ELSE IF get_node_type(pg.pages[child_num]) = NODE_LEAF
    THEN leaf_node_find(pg, child_num, key)
  \* no case of the switch matches: the function returns no value
  ELSE [pg |-> Fatal(pg), v |-> Cursor(page_num, 0)]

internal_node_find(pg, page_num, key) ==
  LET pg1 == get_page(pg, page_num)
  IN IF pg1.fatal THEN [pg |-> pg1, v |-> Cursor(page_num, 0)]
     ELSE
       LET node == pg1.pages[page_num]
           child_index == internal_node_find_child(node, key)
           child_num == internal_node_child(node, child_index)
       IN IF internal_node_child_exits(node, child_index)
            THEN [pg |-> Fatal(pg1), v |-> Cursor(page_num, 0)]
            ELSE internal_node_find_switch(get_page(pg1, child_num), page_num, child_num, key)

root_page_num == 0

table_find(pg, key) ==
  LET pg1 == get_page(pg, root_page_num)
  IN IF pg1.fatal THEN [pg |-> pg1, v |-> Cursor(root_page_num, 0)]
     ELSE IF get_node_type(pg1.pages[root_page_num]) = NODE_LEAF
       THEN leaf_node_find(pg1, root_page_num, key)
       ELSE internal_node_find(pg1, root_page_num, key)

\* table_start once table_find(table, 0) has returned cursor with pager pg
table_start_cursor(pg, cursor) ==
  LET pg1 == get_page(pg, cursor.page_num)
  IN IF pg1.fatal THEN [pg |-> pg1, v |-> cursor]
     ELSE [pg |-> pg1,
           v |-> [cursor EXCEPT !.end_of_table =
                    (leaf_node_num_cells(pg1.pages[cursor.page_num]) = 0)]]

\* the pager and the cursor of a [pg, v] result handed to table_start_cursor
table_start_found(f) == table_start_cursor(f.pg, f.v)

table_start(pg) == table_start_found(table_find(pg, 0))

\* cursor_value: the serialized row under the cursor
cursor_value(pg, cursor) ==
  LET pg1 == get_page(pg, cursor.page_num)
  IN IF pg1.fatal THEN [pg |-> pg1, v |-> GarbageRow(0)]
     ELSE [pg |-> pg1, v |-> leaf_node_value(pg1.pages[cursor.page_num], cursor.cell_num)]

cursor_advance(pg, cursor) ==
  LET pg1 == get_page(pg, cursor.page_num)
  IN IF pg1.fatal THEN [pg |-> pg1, v |-> cursor]
     ELSE
       LET node == pg1.pages[cursor.page_num]
           cell_num == cursor.cell_num + 1
       IN IF UGE(cell_num, leaf_node_num_cells(node))
            THEN LET next_page_num == leaf_node_next_leaf(node)
                 IN IF next_page_num = 0
                      THEN [pg |-> pg1, v |-> [cursor EXCEPT !.cell_num = cell_num,
                                                             !.end_of_table = TRUE]]
                      ELSE [pg |-> pg1, v |-> [cursor EXCEPT !.page_num = next_page_num,
                                                             !.cell_num = 0]]
            ELSE [pg |-> pg1, v |-> [cursor EXCEPT !.cell_num = cell_num]]

\* the scan loop of execute_select: rows printed so far, the pages the
\* cursor stood on, and how the loop ended.  One step of this operator is
\* the run of iterations that stay on the cursor's page: it prints the
\* cells cell_num .. num_cells - 1 (cursor_advance only increments cell_num
\* while cell_num + 1 < num_cells; the cell under the cursor is printed even
\* when cell_num >= num_cells), then cursor_advance leaves the page.
RECURSIVE select_loop(_, _, _, _, _)
\* the loop continues with the pager and the cursor cursor_advance left
select_loop_advanced(adv, rows, visited, fuel) ==
  select_loop(adv.pg, adv.v, rows, visited, fuel)

\* the iterations on the cursor's page, pg being the pager after
\* get_page(cursor->page_num)
select_loop_page(pg, cursor, rows, visited, fuel) ==
  IF pg.fatal
    THEN [pg |-> pg, rows |-> rows,
          visited |-> Append(visited, cursor.page_num), done |-> FALSE]
    ELSE LET node == pg.pages[cursor.page_num]
             last_cell == IF UGT(leaf_node_num_cells(node), cursor.cell_num)
                            THEN leaf_node_num_cells(node) - 1
                            ELSE cursor.cell_num
             printed == [i \in 1 .. (last_cell - cursor.cell_num + 1) |->
                           deserialize_row(
                             cursor_value(pg, [cursor EXCEPT !.cell_num = @ + i - 1]).v)]
         IN select_loop_advanced(
              cursor_advance(pg, [cursor EXCEPT !.cell_num = last_cell]),
              rows \o printed, Append(visited, cursor.page_num), fuel - 1)

select_loop(pg, cursor, rows, visited, fuel) ==
  IF pg.fatal THEN [pg |-> pg, rows |-> rows, visited |-> visited, done |-> FALSE]
  ELSE IF cursor.end_of_table
    THEN [pg |-> pg, rows |-> rows, visited |-> visited, done |-> TRUE]
  ELSE IF fuel = 0
    THEN [pg |-> pg, rows |-> rows, visited |-> visited, done |-> FALSE]
  ELSE select_loop_page(get_page(pg, cursor.page_num), cursor, rows, visited, fuel)

execute_select(pg) == select_loop_advanced(table_start(pg), <<>>, <<>>, MaxScan)

(***************************************************************************)
(* Root creation and internal nodes                                        *)
(*                                                                         *)
(* A function that fetches pages takes the pager and returns it.  Where    *)
(* the code goes on with the result of a call, the rest of the function is *)
(* a definition of its own that takes that result as a parameter; such a   *)
(* definition is named after the function and the step it starts at, and   *)
(* its parameters are the function's local variables that are live there.  *)
(***************************************************************************)
update_internal_node_key(node, old_key, new_key) ==
  [node EXCEPT !.icells[internal_node_find_child(node, old_key)].key = new_key]

\* the loop of create_new_root that re-parents the children in the cells
\* of the left child
RECURSIVE create_new_root_reparent(_, _, _)
\* *node_parent(child) = left_child_page_num, pg being the pager after
\* get_page(child_page_num), and the next iteration
create_new_root_reparent_child(pg, left_child_page_num, child_page_num, i) ==
  IF pg.fatal THEN pg
  ELSE create_new_root_reparent(SetParent(pg, child_page_num, left_child_page_num),
                                left_child_page_num, i + 1)

create_new_root_reparent(pg, left_child_page_num, i) ==
  IF pg.fatal THEN pg
  ELSE
    LET left_child == pg.pages[left_child_page_num]
    IN IF ~UGT(internal_node_num_keys(left_child), i) THEN pg
       ELSE IF internal_node_child_exits(left_child, i) THEN Fatal(pg)
       ELSE create_new_root_reparent_child(
              get_page(pg, internal_node_child(left_child, i)),
              left_child_page_num, internal_node_child(left_child, i), i)

\* if (get_node_type(root) == NODE_INTERNAL) both children are initialized
create_new_root_init_children(pg, right_child_page_num, left_child_page_num) ==
  IF get_node_type(pg.pages[root_page_num]) = NODE_INTERNAL
    THEN SetPage(SetPage(pg, right_child_page_num,
                         init_internal_node(pg.pages[right_child_page_num])),
                 left_child_page_num,
                 init_internal_node(pg.pages[left_child_page_num]))
    ELSE pg

\* create_new_root_copy without set_node_root(left_child, false)
create_new_root_copy_keeps_flag(pg, left_child_page_num) ==
  SetPage(pg, left_child_page_num, pg.pages[root_page_num])

\* memcpy(left_child, root, PAGE_SIZE); set_node_root(left_child, false)
create_new_root_copy(pg, left_child_page_num) ==
  SetPage(pg, left_child_page_num, set_node_root(pg.pages[root_page_num], FALSE))

\* if (get_node_type(left_child) == NODE_INTERNAL) its children are re-parented
create_new_root_left_child(pg, left_child_page_num) ==
  IF get_node_type(pg.pages[left_child_page_num]) = NODE_INTERNAL
    THEN create_new_root_reparent(pg, left_child_page_num, 0)
    ELSE pg

\* create_new_root_links without *node_parent(right_child) = root_page_num
create_new_root_links_left_parent_only(m, right_child_page_num, left_child_page_num) ==
  IF m.pg.fatal THEN m.pg
  ELSE SetParent(
         SetPage(m.pg, root_page_num,
                 [m.pg.pages[root_page_num] EXCEPT
                    !.icells[0].key = m.v,
                    !.link = right_child_page_num]),
         left_child_page_num, root_page_num)

\* the last three assignments, m being the result of
\* get_node_max_key(left_child)
create_new_root_links(m, right_child_page_num, left_child_page_num) ==
  IF m.pg.fatal THEN m.pg
  ELSE SetParent(
         SetParent(
           SetPage(m.pg, root_page_num,
                   [m.pg.pages[root_page_num] EXCEPT
                      !.icells[0].key = m.v,
                      !.link = right_child_page_num]),
           left_child_page_num, root_page_num),
         right_child_page_num, root_page_num)

\* the root becomes an internal node with one key
create_new_root_root(pg, right_child_page_num, left_child_page_num) ==
  IF pg.fatal THEN pg
  ELSE
    LET root1 == [set_node_root(init_internal_node(pg.pages[root_page_num]), TRUE)
                    EXCEPT !.num = 1]
    IN IF internal_node_child_exits(root1, 0) THEN Fatal(pg)
       ELSE create_new_root_links(
              get_node_max_key_at(
                SetPage(pg, root_page_num,
                        [root1 EXCEPT !.icells[0].child = left_child_page_num]),
                left_child_page_num),
              right_child_page_num, left_child_page_num)

\* create_new_root from the first if on, pg being the pager after the three
\* get_page calls
create_new_root_pages(pg, right_child_page_num, left_child_page_num) ==
  IF pg.fatal THEN pg
  ELSE create_new_root_root(
         create_new_root_left_child(
           create_new_root_copy(
             create_new_root_init_children(pg, right_child_page_num, left_child_page_num),
             left_child_page_num),
           left_child_page_num),
         right_child_page_num, left_child_page_num)

\* u is the result of get_unused_page_num
create_new_root_unused(u, right_child_page_num) ==
  create_new_root_pages(get_page(u.pg, u.v), right_child_page_num, u.v)

create_new_root(pg, right_child_page_num) ==
  Returned("create_new_root", <<right_child_page_num>>, pg,
    create_new_root_unused(
      get_unused_page_num(get_page(get_page(pg, root_page_num), right_child_page_num)),
      right_child_page_num))

RECURSIVE internal_node_insert(_, _, _)
RECURSIVE internal_node_split_and_insert(_, _, _)
RECURSIVE internal_node_split_move(_, _, _, _)

\* the rest of an iteration of the loop below, pg being the pager after
\* internal_node_insert(table, new_page_num, cur_page_num)
internal_node_split_move_cell(pg, old_page_num, new_page_num, cur_page_num, i) ==
  IF pg.fatal THEN pg
  ELSE internal_node_split_move(
         DecrementNumKeys(SetParent(pg, cur_page_num, new_page_num), old_page_num),
         old_page_num, new_page_num, i - 1)

\* the loop of internal_node_split_and_insert that moves the cells above
\* the middle key from the old node to the new node
internal_node_split_move(pg, old_page_num, new_page_num, i) ==
  IF pg.fatal THEN pg
  ELSE IF ~(i > INTERNAL_NODE_MAX_CELLS \div 2) THEN pg
  ELSE
    LET old_node == pg.pages[old_page_num]
        cur_page_num == internal_node_child(old_node, i)
    IN IF internal_node_child_exits(old_node, i) THEN Fatal(pg)
       ELSE internal_node_split_move_cell(
              internal_node_insert(get_page(pg, cur_page_num), new_page_num, cur_page_num),
              old_page_num, new_page_num, cur_page_num, i)

\* if (!splitting_root): *node_parent(new_node) = *node_parent(old_node)
internal_node_split_and_insert_new_parent(pg, new_page_num, old_page_num) ==
  IF pg.fatal THEN pg
  ELSE SetParent(pg, new_page_num, node_parent(pg.pages[old_page_num]))

\* the final if, pg being the pager after update_internal_node_key
internal_node_split_and_insert_finish(pg, new_page_num, splitting_root, old_page_num) ==
  IF splitting_root THEN pg
  ELSE internal_node_split_and_insert_new_parent(
         internal_node_insert(pg, node_parent(pg.pages[old_page_num]), new_page_num),
         new_page_num, old_page_num)

\* update_internal_node_key(parent, old_max, get_node_max_key(old_node)), nm
\* being the result of get_node_max_key
internal_node_split_and_insert_update(nm, old_max, new_page_num, splitting_root, parent_ptr, old_page_num) ==
  IF nm.pg.fatal THEN nm.pg
  ELSE internal_node_split_and_insert_finish(
         SetPage(nm.pg, parent_ptr,
                 update_internal_node_key(nm.pg.pages[parent_ptr], old_max, nm.v)),
         new_page_num, splitting_root, old_page_num)

\* *node_parent(child) = destination_page_num, pg being the pager after
\* internal_node_insert(table, destination_page_num, child_page_num)
internal_node_split_and_insert_child(pg, child_page_num, old_max, new_page_num, splitting_root, parent_ptr, old_page_num, destination_page_num) ==
  IF pg.fatal THEN pg
  ELSE internal_node_split_and_insert_update(
         get_node_max_key_at(SetParent(pg, child_page_num, destination_page_num),
                             old_page_num),
         old_max, new_page_num, splitting_root, parent_ptr, old_page_num)

\* the choice of the destination, ma being the result of
\* get_node_max_key(old_node) after the split
internal_node_split_and_insert_destination(ma, child_page_num, old_max, child_max, new_page_num, splitting_root, parent_ptr, old_page_num) ==
  IF ma.pg.fatal THEN ma.pg
  ELSE
    LET max_after_split == ma.v
        destination_page_num == IF UGT(max_after_split, child_max)
                                  THEN old_page_num ELSE new_page_num
    IN internal_node_split_and_insert_child(
         internal_node_insert(ma.pg, destination_page_num, child_page_num),
         child_page_num, old_max, new_page_num, splitting_root, parent_ptr,
         old_page_num, destination_page_num)

\* internal_node_split_and_insert_middle without the last (*old_num_keys)--
internal_node_split_and_insert_middle_keeps_cell(pg, child_page_num, old_max, child_max, new_page_num, splitting_root, parent_ptr, old_page_num) ==
  IF pg.fatal THEN pg
  ELSE
    LET old_node == pg.pages[old_page_num]
    IN IF internal_node_child_exits(old_node, internal_node_num_keys(old_node) - 1)
         THEN Fatal(pg)
         ELSE internal_node_split_and_insert_destination(
                get_node_max_key_at(
                  SetPage(pg, old_page_num,
                          [old_node EXCEPT
                             !.link = internal_node_child(old_node, old_node.num - 1)]),
                  old_page_num),
                child_page_num, old_max, child_max, new_page_num, splitting_root,
                parent_ptr, old_page_num)

\* the child before the middle key becomes the right child of old_node, pg
\* being the pager after the loop
internal_node_split_and_insert_middle(pg, child_page_num, old_max, child_max, new_page_num, splitting_root, parent_ptr, old_page_num) ==
  IF pg.fatal THEN pg
  ELSE
    LET old_node == pg.pages[old_page_num]
    IN IF internal_node_child_exits(old_node, internal_node_num_keys(old_node) - 1)
         THEN Fatal(pg)
         ELSE internal_node_split_and_insert_destination(
                get_node_max_key_at(
                  SetPage(pg, old_page_num,
                          [old_node EXCEPT
                             !.link = internal_node_child(old_node, old_node.num - 1),
                             !.num = @ - 1]),
                  old_page_num),
                child_page_num, old_max, child_max, new_page_num, splitting_root,
                parent_ptr, old_page_num)

\* pg is the pager after internal_node_insert(table, new_page_num, cur_page_num)
\* of the right child
internal_node_split_and_insert_right(pg, child_page_num, old_max, child_max, new_page_num, splitting_root, parent_ptr, old_page_num, cur_page_num) ==
  IF pg.fatal THEN pg
  ELSE internal_node_split_and_insert_middle(
         internal_node_split_move(
           SetRightChild(SetParent(pg, cur_page_num, new_page_num),
                         old_page_num, INVALID_PAGE_NUM),
           old_page_num, new_page_num, INTERNAL_NODE_MAX_CELLS - 1),
         child_page_num, old_max, child_max, new_page_num, splitting_root,
         parent_ptr, old_page_num)

\* pg is the pager after get_page(old_page_num)
internal_node_split_and_insert_old_node(pg, child_page_num, old_max, child_max, new_page_num, splitting_root, parent_ptr, old_page_num) ==
  IF pg.fatal THEN pg
  ELSE
    LET cur_page_num == internal_node_right_child(pg.pages[old_page_num])
    IN \* first put the right child into the new node
       internal_node_split_and_insert_right(
         internal_node_insert(get_page(pg, cur_page_num), new_page_num, cur_page_num),
         child_page_num, old_max, child_max, new_page_num, splitting_root,
         parent_ptr, old_page_num, cur_page_num)

\* pg is the pager after the if (splitting_root) ... else ... statement
\* except for its last get_page(old_page_num)
internal_node_split_and_insert_parent(pg, parent_page_num, child_page_num, old_max, child_max, new_page_num, splitting_root, parent_ptr) ==
  IF pg.fatal THEN pg
  ELSE IF splitting_root /\ internal_node_child_exits(pg.pages[root_page_num], 0)
    THEN Fatal(pg)
  ELSE
    LET old_page_num == IF splitting_root
                          THEN internal_node_child(pg.pages[root_page_num], 0)
                          ELSE parent_page_num
    IN internal_node_split_and_insert_old_node(
         get_page(pg, old_page_num), child_page_num, old_max, child_max,
         new_page_num, splitting_root, parent_ptr, old_page_num)

\* else branch: init_internal_node(new_node), q being the pager after the
\* two get_page calls
internal_node_split_and_insert_new_node(q, new_page_num) ==
  IF q.fatal THEN q
  ELSE SetPage(q, new_page_num, init_internal_node(q.pages[new_page_num]))

\* u is the result of get_unused_page_num
internal_node_split_and_insert_unused(u, parent_page_num, child_page_num, old_max, child_max) ==
  LET new_page_num == u.v
      splitting_root == is_node_root(u.pg.pages[parent_page_num])
      \* the page the pointer parent refers to
      parent_ptr == IF splitting_root THEN root_page_num
                    ELSE node_parent(u.pg.pages[parent_page_num])
  IN internal_node_split_and_insert_parent(
       IF splitting_root
         THEN get_page(create_new_root(u.pg, new_page_num), root_page_num)
         ELSE internal_node_split_and_insert_new_node(
                get_page(get_page(u.pg, parent_ptr), new_page_num), new_page_num),
       parent_page_num, child_page_num, old_max, child_max, new_page_num,
       splitting_root, parent_ptr)

\* cm is the result of get_node_max_key(child)
internal_node_split_and_insert_child_max(cm, parent_page_num, child_page_num, old_max) ==
  IF cm.pg.fatal THEN cm.pg
  ELSE internal_node_split_and_insert_unused(
         get_unused_page_num(cm.pg), parent_page_num, child_page_num, old_max, cm.v)

\* om is the result of get_node_max_key(old_node)
internal_node_split_and_insert_old_max(om, parent_page_num, child_page_num) ==
  IF om.pg.fatal THEN om.pg
  ELSE internal_node_split_and_insert_child_max(
         get_node_max_key_at(get_page(om.pg, child_page_num), child_page_num),
         parent_page_num, child_page_num, om.v)

internal_node_split_and_insert(pg, parent_page_num, child_page_num) ==
  Returned("internal_node_split_and_insert", <<parent_page_num, child_page_num>>, pg,
    internal_node_split_and_insert_old_max(
      get_node_max_key_at(get_page(pg, parent_page_num), parent_page_num),
      parent_page_num, child_page_num))

\* rm is the result of get_node_max_key(right_child)
internal_node_insert_cell(rm, parent_page_num, child_page_num, child_max_key, index, original_num_keys, right_child_page_num) ==
  IF rm.pg.fatal THEN rm.pg
  ELSE IF UGT(child_max_key, rm.v) THEN
    IF internal_node_child_exits(rm.pg.pages[parent_page_num], original_num_keys)
      THEN Fatal(rm.pg)
    ELSE
      SetParent(
        SetParent(
          SetPage(rm.pg, parent_page_num,
                  [rm.pg.pages[parent_page_num] EXCEPT
                     !.icells[original_num_keys] =
                        [child |-> right_child_page_num, key |-> rm.v],
                     !.link = child_page_num]),
          child_page_num, parent_page_num),
        right_child_page_num, parent_page_num)
  ELSE
    LET p3 == rm.pg.pages[parent_page_num]
        \* for (i = original_num_keys; i > index; i--) cell[i] = cell[i - 1]
        shifted == [i \in ICellIdx |->
                      IF i > index /\ i <= original_num_keys
                        THEN p3.icells[i - 1] ELSE p3.icells[i]]
        p4 == [p3 EXCEPT !.icells = shifted]
    IN IF internal_node_child_exits(p4, index) THEN Fatal(rm.pg)
       ELSE SetParent(
              SetPage(rm.pg, parent_page_num,
                      [p4 EXCEPT !.icells[index] =
                                   [child |-> child_page_num, key |-> child_max_key]]),
              child_page_num, parent_page_num)

\* pg is the pager after get_page(right_child_page_num)
internal_node_insert_right_child(pg, parent_page_num, child_page_num, child_max_key, index, original_num_keys, right_child_page_num) ==
  IF pg.fatal THEN pg
  ELSE internal_node_insert_cell(
         get_node_max_key_at(SetNumKeys(pg, parent_page_num, original_num_keys + 1),
                             right_child_page_num),
         parent_page_num, child_page_num, child_max_key, index, original_num_keys,
         right_child_page_num)

\* m is the result of get_node_max_key(child)
internal_node_insert_child_max(m, parent_page_num, child_page_num) ==
  IF m.pg.fatal THEN m.pg
  ELSE
    LET parent == m.pg.pages[parent_page_num]
        child_max_key == m.v
        index == internal_node_find_child(parent, child_max_key)
        original_num_keys == internal_node_num_keys(parent)
        right_child_page_num == internal_node_right_child(parent)
    IN IF UGE(original_num_keys, INTERNAL_NODE_MAX_CELLS)
         THEN internal_node_split_and_insert(m.pg, parent_page_num, child_page_num)
       ELSE IF right_child_page_num = INVALID_PAGE_NUM
         THEN SetParent(SetRightChild(m.pg, parent_page_num, child_page_num),
                        child_page_num, parent_page_num)
       ELSE internal_node_insert_right_child(
              get_page(m.pg, right_child_page_num), parent_page_num, child_page_num,
              child_max_key, index, original_num_keys, right_child_page_num)

internal_node_insert(pg, parent_page_num, child_page_num) ==
  internal_node_insert_child_max(
    get_node_max_key_at(get_page(get_page(pg, parent_page_num), child_page_num),
                        child_page_num),
    parent_page_num, child_page_num)

(***************************************************************************)
(* Leaf nodes and insert                                                   *)
(***************************************************************************)
\* leaf_node_split_loop that takes cell i of old for every i but cell_num
RECURSIVE leaf_node_split_loop_no_shift(_, _, _, _, _, _)
leaf_node_split_loop_no_shift(oldc, newc, i, cell_num, key, value) ==
  IF i < 0 THEN [old |-> oldc, new |-> newc]
  ELSE
    LET index_within_node == i % LEAF_NODE_LEFT_SPLIT_COUNT
        src == IF i = cell_num THEN [key |-> key, value |-> serialize_row(value)]
               ELSE oldc[IF i < LEAF_NODE_MAX_CELLS THEN i ELSE i - 1]
    IN IF i >= LEAF_NODE_LEFT_SPLIT_COUNT
         THEN leaf_node_split_loop_no_shift(oldc, [newc EXCEPT ![index_within_node] = src],
                                            i - 1, cell_num, key, value)
         ELSE leaf_node_split_loop_no_shift([oldc EXCEPT ![index_within_node] = src], newc,
                                            i - 1, cell_num, key, value)

\* the redistribution loop of leaf_node_split_and_insert, i from
\* LEAF_NODE_MAX_CELLS down to 0; old is read and written in place
RECURSIVE leaf_node_split_loop(_, _, _, _, _, _)
leaf_node_split_loop(oldc, newc, i, cell_num, key, value) ==
  IF i < 0 THEN [old |-> oldc, new |-> newc]
  ELSE
    LET index_within_node == i % LEAF_NODE_LEFT_SPLIT_COUNT
        src == IF i = cell_num THEN [key |-> key, value |-> serialize_row(value)]
               ELSE IF UGT(i, cell_num) THEN oldc[i - 1]
               ELSE oldc[i]
    IN IF i >= LEAF_NODE_LEFT_SPLIT_COUNT
         THEN leaf_node_split_loop(oldc, [newc EXCEPT ![index_within_node] = src],
                                   i - 1, cell_num, key, value)
         ELSE leaf_node_split_loop([oldc EXCEPT ![index_within_node] = src], newc,
                                   i - 1, cell_num, key, value)

\* leaf_node_split_and_insert_parent that inserts the new leaf into the root
leaf_node_split_and_insert_parent_into_root(pg, parent_page_num, new_page_num, old_max, new_max) ==
  IF pg.fatal THEN pg
  ELSE internal_node_insert(
         SetPage(pg, parent_page_num,
                 update_internal_node_key(pg.pages[parent_page_num], old_max, new_max)),
         root_page_num, new_page_num)

\* else branch of the final if, pg being the pager after
\* get_page(parent_page_num)
leaf_node_split_and_insert_parent(pg, parent_page_num, new_page_num, old_max, new_max) ==
  IF pg.fatal THEN pg
  ELSE internal_node_insert(
         SetPage(pg, parent_page_num,
                 update_internal_node_key(pg.pages[parent_page_num], old_max, new_max)),
         parent_page_num, new_page_num)

\* the final if, pg being the pager with the cells divided over both leaves
leaf_node_split_and_insert_update(pg, old_page_num, new_page_num, old_max) ==
  LET old == pg.pages[old_page_num]
      parent_page_num == node_parent(old)
  IN IF is_node_root(old) THEN create_new_root(pg, new_page_num)
     ELSE leaf_node_split_and_insert_parent(
            get_page(pg, parent_page_num), parent_page_num, new_page_num, old_max,
            get_node_max_key(pg, old).v)

\* from init_leaf_node(new) to the cell counts, pg being the pager after
\* get_page(new_page_num)
leaf_node_split_and_insert_new(pg, cursor, key, value, old_max, new_page_num) ==
  IF pg.fatal THEN pg
  ELSE
    LET old == pg.pages[cursor.page_num]
        new0 == [init_leaf_node(pg.pages[new_page_num]) EXCEPT
                   !.parent = node_parent(old),
                   !.link = leaf_node_next_leaf(old)]
        moved == leaf_node_split_loop(old.cells, new0.cells, LEAF_NODE_MAX_CELLS,
                                      cursor.cell_num, key, value)
        old1 == [old EXCEPT !.link = new_page_num, !.cells = moved.old,
                            !.num = LEAF_NODE_LEFT_SPLIT_COUNT]
        new1 == [new0 EXCEPT !.cells = moved.new, !.num = LEAF_NODE_RIGHT_SPLIT_COUNT]
    IN leaf_node_split_and_insert_update(
         SetPage(SetPage(pg, cursor.page_num, old1), new_page_num, new1),
         cursor.page_num, new_page_num, old_max)

\* the asserts and get_page(new_page_num), u being the result of
\* get_unused_page_num
leaf_node_split_and_insert_unused(u, cursor, key, value, old_num_cells, old_max) ==
  \* assert(old_num_cells == LEAF_NODE_MAX_CELLS); assert(cursor->cell_num <= old_num_cells)
  IF old_num_cells # LEAF_NODE_MAX_CELLS \/ UGT(cursor.cell_num, old_num_cells)
    THEN Fatal(u.pg)
    ELSE leaf_node_split_and_insert_new(get_page(u.pg, u.v), cursor, key, value,
                                        old_max, u.v)

leaf_node_split_and_insert(pg, cursor, key, value) ==
  LET pg1 == get_page(pg, cursor.page_num)
      old == pg1.pages[cursor.page_num]
  IN IF pg1.fatal THEN pg1
     ELSE leaf_node_split_and_insert_unused(
            get_unused_page_num(pg1), cursor, key, value,
            leaf_node_num_cells(old), get_node_max_key(pg1, old).v)

\* leaf_node_insert that splits only when num_cells > LEAF_NODE_MAX_CELLS
leaf_node_insert_late_split(pg, cursor, key, value) ==
  LET pg1 == get_page(pg, cursor.page_num)
  IN IF pg1.fatal THEN pg1 ELSE
  LET node == pg1.pages[cursor.page_num]
      num_cells == leaf_node_num_cells(node)
  IN IF UGT(num_cells, LEAF_NODE_MAX_CELLS + 1) \/ UGT(cursor.cell_num, num_cells)
       THEN Fatal(pg1)
     ELSE IF num_cells > LEAF_NODE_MAX_CELLS
       THEN leaf_node_split_and_insert(pg1, cursor, key, value)
     ELSE
       LET shifted == [i \in LeafIdx |->
                         IF i > cursor.cell_num /\ i <= num_cells
                           THEN node.cells[i - 1] ELSE node.cells[i]]
       IN SetPage(pg1, cursor.page_num,
            [node EXCEPT !.num = num_cells + 1,
                         !.cells = [shifted EXCEPT ![cursor.cell_num] =
                                      [key |-> key, value |-> serialize_row(value)]]])

leaf_node_insert(pg, cursor, key, value) ==
  LET pg1 == get_page(pg, cursor.page_num)
  IN IF pg1.fatal THEN pg1 ELSE
  LET node == pg1.pages[cursor.page_num]
      num_cells == leaf_node_num_cells(node)
  IN \* assert(num_cells <= LEAF_NODE_MAX_CELLS); assert(cursor->cell_num <= num_cells)
     IF UGT(num_cells, LEAF_NODE_MAX_CELLS) \/ UGT(cursor.cell_num, num_cells)
       THEN Fatal(pg1)
     ELSE IF num_cells >= LEAF_NODE_MAX_CELLS
       THEN leaf_node_split_and_insert(pg1, cursor, key, value)
     ELSE
       \* for (i = num_cells; i > cell_num; i--) cell[i] = cell[i - 1]
       LET shifted == [i \in LeafIdx |->
                         IF i > cursor.cell_num /\ i <= num_cells
                           THEN node.cells[i - 1] ELSE node.cells[i]]
       IN SetPage(pg1, cursor.page_num,
            [node EXCEPT !.num = num_cells + 1,
                         !.cells = [shifted EXCEPT ![cursor.cell_num] =
                                      [key |-> key, value |-> serialize_row(value)]]])

\* execute_insert after table_find, f being its result: the duplicate test
\* reads the key at cursor->cell_num in the root page, and num_cells was
\* read from the root page before the search
execute_insert_found(f, num_cells, row) ==
  LET cursor == f.v
      key_to_insert == row.id
  IN IF f.pg.fatal THEN [pg |-> f.pg, v |-> "exit"]
     ELSE IF UGT(num_cells, cursor.cell_num)
             /\ leaf_node_key(f.pg.pages[root_page_num], cursor.cell_num) = key_to_insert
       THEN [pg |-> f.pg, v |-> EXECUTE_DUPLICATE_KEY]
     ELSE [pg |-> leaf_node_insert(f.pg, cursor, row.id, row), v |-> EXECUTE_SUCCESS]

\* a fatal exit inside leaf_node_insert ends the process: nothing is returned
execute_insert_result(r) == IF r.pg.fatal THEN [r EXCEPT !.v = "exit"] ELSE r

\* execute_insert: node and num_cells are read from the ROOT page before the
\* search
execute_insert(pg, row) ==
  LET pg1 == get_page([pg EXCEPT !.calls = <<>>], root_page_num)
  IN IF pg1.fatal THEN [pg |-> pg1, v |-> "exit"]
     ELSE execute_insert_result(
            execute_insert_found(table_find(pg1, row.id),
                                 leaf_node_num_cells(pg1.pages[root_page_num]), row))

(***************************************************************************)
(* Open, close, .btree                                                     *)
(***************************************************************************)
\* lseek(fd, 0, SEEK_END) on the file f: a file is a sequence of pages; a
\* file that something else than db_close has written may end in a partial
\* page of bytes < PAGE_SIZE bytes
FileLength(f) ==
  IF Len(f) > 0 /\ f[Len(f)].type = "partial"
    THEN (Len(f) - 1) * PAGE_SIZE + f[Len(f)].bytes
    ELSE Len(f) * PAGE_SIZE

\* pager_open without the test of file_length % PAGE_SIZE
pager_open_any_length(f) ==
  [pages |-> [i \in PageIdx |-> NULL],
   num_pages |-> FileLength(f) \div PAGE_SIZE,
   file_length |-> FileLength(f),
   file |-> f,
   fatal |-> FALSE,
   calls |-> <<>>]

\* pager_open on the file f; exit(0) on a file that is not a whole number
\* of pages
pager_open(f) ==
  [pages |-> [i \in PageIdx |-> NULL],
   num_pages |-> FileLength(f) \div PAGE_SIZE,
   file_length |-> FileLength(f),
   file |-> f,
   fatal |-> (FileLength(f) % PAGE_SIZE # 0),
   calls |-> <<>>]

\* db_open once pager_open has returned pg
db_open_pager(pg) ==
  IF pg.fatal THEN pg
  ELSE IF pg.num_pages = 0
    THEN SetPage(get_page(pg, 0), 0,
                 set_node_root(init_leaf_node(get_page(pg, 0).pages[0]), TRUE))
    ELSE pg

db_open(f) == db_open_pager(pager_open(f))

\* pager_flush that writes only inside the file as it is
pager_flush_within_file(pg, page_num) ==
  IF pg.pages[page_num] = NULL THEN Fatal(pg)
  ELSE IF page_num < Len(pg.file)
    THEN [pg EXCEPT !.file[page_num + 1] = pg.pages[page_num]]
    ELSE pg

\* lseek to page_num * PAGE_SIZE and write PAGE_SIZE bytes; a seek past the
\* end of the file leaves a hole that reads as zeros
pager_flush(pg, page_num) ==
  IF pg.pages[page_num] = NULL THEN Fatal(pg)
  ELSE IF page_num < Len(pg.file)
    THEN [pg EXCEPT !.file[page_num + 1] = pg.pages[page_num]]
    ELSE [pg EXCEPT !.file = pg.file
                               \o [j \in 1 .. (page_num - Len(pg.file)) |-> MallocPage(0)]
                               \o <<pg.pages[page_num]>>]

\* the first loop of db_close bounded by the pages the file had at open
\* instead of num_pages
RECURSIVE db_close_loop_file_pages(_, _)
db_close_loop_file_pages(pg, i) ==
  IF pg.fatal THEN pg
  ELSE IF ~UGT(pg.file_length \div PAGE_SIZE, i) THEN pg
  ELSE IF pg.pages[i] = NULL THEN db_close_loop_file_pages(pg, i + 1)
  ELSE db_close_loop_file_pages([pager_flush(pg, i) EXCEPT !.pages[i] = NULL], i + 1)

\* the first loop of db_close
RECURSIVE db_close_loop(_, _)
db_close_loop(pg, i) ==
  IF pg.fatal THEN pg
  ELSE IF ~UGT(pg.num_pages, i) THEN pg
  ELSE IF pg.pages[i] = NULL THEN db_close_loop(pg, i + 1)
  ELSE db_close_loop([pager_flush(pg, i) EXCEPT !.pages[i] = NULL], i + 1)

\* db_close: the second loop releases the slots the first loop left
db_close(pg) ==
  LET pg1 == db_close_loop(pg, 0)
  IN IF pg1.fatal THEN pg1
     ELSE [pg1 EXCEPT !.pages = [i \in PageIdx |-> NULL]]

\* print_tree: the pager after the walk and the lines it printed
RECURSIVE print_tree(_, _, _)
RECURSIVE print_tree_children(_, _, _, _, _)
print_tree_children(pg, page_num, i, level, lines) ==
  IF pg.fatal THEN [pg |-> pg, lines |-> lines]
  ELSE
    LET node == pg.pages[page_num]
    IN IF i < internal_node_num_keys(node)
         THEN IF internal_node_child_exits(node, i)
                THEN [pg |-> Fatal(pg), lines |-> lines]
                ELSE LET r == print_tree(pg, internal_node_child(node, i), level + 1)
                     IN print_tree_children(r.pg, page_num, i + 1, level,
                          lines \o r.lines \o <<<<level + 1, "key", internal_node_key(node, i)>>>>)
         ELSE LET r == print_tree(pg, internal_node_right_child(node), level + 1)
              IN [pg |-> r.pg, lines |-> lines \o r.lines]

print_tree(pg, page_num, level) ==
  LET pg1 == get_page(pg, page_num)
  IN IF pg1.fatal THEN [pg |-> pg1, lines |-> <<>>]
     ELSE
       LET node == pg1.pages[page_num]
       IN IF get_node_type(node) = NODE_LEAF
            THEN [pg |-> pg1,
                  lines |-> <<<<level, "leaf", leaf_node_num_cells(node)>>>>
                            \o [i \in 1 .. leaf_node_num_cells(node) |->
                                  <<level + 1, "-", leaf_node_key(node, i - 1)>>]]
          ELSE IF get_node_type(node) = NODE_INTERNAL
            THEN IF internal_node_num_keys(node) > 0
                   THEN print_tree_children(pg1, page_num, 0, level,
                          <<<<level, "internal", internal_node_num_keys(node)>>>>)
                   ELSE [pg |-> pg1, lines |-> <<<<level, "internal", 0>>>>]
          ELSE [pg |-> pg1, lines |-> <<>>]

(***************************************************************************)
(* The tree as the pages of a pager describe it                            *)
(***************************************************************************)
\* the content of page n: the loaded copy, else what the file holds
PageAt(pg, n) == IF pg.pages[n] # NULL THEN pg.pages[n] ELSE pg.file[n + 1]
HasPage(pg, n) == n \in PageIdx /\ (pg.pages[n] # NULL \/ n < Len(pg.file))

\* levels below the root that the walks descend
MaxDepth == 6

\* the child page numbers of an internal page, cells first, then right_child
ChildList(node) ==
  [i \in 1 .. (node.num + 1) |->
     IF i <= node.num THEN node.icells[i - 1].child ELSE node.link]

\* the pages reachable from page n through child pointers (n included)
RECURSIVE Reach(_, _, _)
Reach(pg, n, d) ==
  IF ~HasPage(pg, n) THEN {}
  ELSE IF PageAt(pg, n).type # NODE_INTERNAL \/ d = 0
          \/ PageAt(pg, n).num \notin 0 .. INTERNAL_NODE_MAX_CELLS
    THEN {n}
  ELSE {n} \cup UNION {Reach(pg, ChildList(PageAt(pg, n))[i], d - 1) :
                         i \in 1 .. (PageAt(pg, n).num + 1)}

LeafKeys(node) == [i \in 1 .. node.num |-> node.cells[i - 1].key]

\* the keys stored in the leaves below page n
RECURSIVE SubtreeKeys(_, _, _)
SubtreeKeys(pg, n, d) ==
  IF ~HasPage(pg, n) THEN {}
  ELSE IF PageAt(pg, n).type = NODE_LEAF
    THEN {PageAt(pg, n).cells[i].key : i \in 0 .. (PageAt(pg, n).num - 1)}
  ELSE IF PageAt(pg, n).type # NODE_INTERNAL \/ d = 0
          \/ PageAt(pg, n).num \notin 0 .. INTERNAL_NODE_MAX_CELLS
    THEN {}
  ELSE UNION {SubtreeKeys(pg, ChildList(PageAt(pg, n))[i], d - 1) :
                i \in 1 .. (PageAt(pg, n).num + 1)}

KeysOf(pg) == SubtreeKeys(pg, root_page_num, MaxDepth)
PagesOf(pg) == [n \in 0 .. (pg.num_pages - 1) |-> PageAt(pg, n)]

SetMax(S) == CHOOSE x \in S : \A y \in S : y <= x

StrictlyIncreasing(q) == \A i \in 1 .. (Len(q) - 1) : q[i] < q[i + 1]

RowIds(rows) == [i \in 1 .. Len(rows) |-> rows[i].id]
SeqToBag(q) == [x \in {q[i] : i \in 1 .. Len(q)} |-> Cardinality({i \in 1 .. Len(q) : q[i] = x})]

(***************************************************************************)
(* The REPL as a state machine                                             *)
(***************************************************************************)
MallocFills == {0, INVALID_PAGE_NUM}

\* the row of an insert statement with a fresh id / a repeated id
FreshRow(k) == [id |-> k, username |-> <<1>>, email |-> <<1, 2>>]
DupRow(k) == [id |-> k, username |-> <<2>>, email |-> <<2, 1>>]

\* the last statement: what was typed (op, key, for an insert the row in
\* rows), what it printed (result, rows of a select, lines of .btree), and
\* for the properties: whether the id was stored before an insert, whether
\* the insert left all pages as they were, and in rows of .exit the rows a
\* select would have printed just before the close
NoStatement == [op |-> "none", key |-> 0, result |-> "none", rows |-> <<>>, lines |-> <<>>,
                present |-> FALSE, pages_same |-> TRUE]

Init ==
  /\ file0 = <<>>
  /\ fill \in MallocFills
  /\ pager = db_open(<<>>)
  /\ status = "running"
  /\ last = NoStatement
  /\ lo = Pivot
  /\ hi = Pivot
  /\ dups = 0
  /\ reopens = 0
  /\ tail = 0
  /\ stored = EmptyBag
  /\ ondisk = EmptyBag

\* the input driver: after the first repeated id or reopen, at most MaxTail
\* statements follow (starting the program again is not a statement)
CanStep == (dups = 0 /\ reopens = 0) \/ tail < MaxTail
Step == tail' = IF dups' > 0 \/ reopens' > 0 THEN tail + 1 ELSE tail

\* main: execute_statement of an insert of row, and the line printed
DoInsert(row) ==
  \E r \in {execute_insert(pager, row)} :
     /\ pager' = r.pg
     /\ status' = IF r.pg.fatal THEN "fatal" ELSE "running"
     /\ last' = [op |-> "insert", key |-> row.id, result |-> r.v,
                 rows |-> <<row>>, lines |-> <<>>,
                 present |-> row.id \in KeysOf(pager),
                 pages_same |-> r.pg.fatal \/ PagesOf(r.pg) = PagesOf(pager)]
     /\ stored' = IF r.v = EXECUTE_SUCCESS THEN stored (+) SetToBag({row}) ELSE stored
     /\ UNCHANGED <<file0, fill, reopens, ondisk>>

InsertAscending ==
  /\ status = "running"
  /\ CanStep
  /\ hi - lo < MaxInserts
  /\ DoInsert(FreshRow(hi))
  /\ hi' = hi + 1
  /\ UNCHANGED <<lo, dups>>
  /\ Step

InsertDescending ==
  /\ status = "running"
  /\ CanStep
  /\ hi - lo < MaxInserts
  /\ lo > 0
  /\ DoInsert(FreshRow(lo - 1))
  /\ lo' = lo - 1
  /\ UNCHANGED <<hi, dups>>
  /\ Step

\* ids already tried that a later insert statement repeats: the lowest, and
\* the id LEAF_NODE_RIGHT_SPLIT_COUNT below the next fresh one
DupChoices == {lo, hi - LEAF_NODE_RIGHT_SPLIT_COUNT} \cap (lo .. (hi - 1))

InsertRepeated ==
  /\ status = "running"
  /\ CanStep
  /\ dups < MaxDups
  /\ \E k \in DupChoices : DoInsert(DupRow(k))
  /\ dups' = dups + 1
  /\ UNCHANGED <<lo, hi>>
  /\ Step

Select ==
  /\ status = "running"
  /\ CanStep
  /\ \E r \in {execute_select(pager)} :
        /\ pager' = r.pg
        /\ status' = IF r.done THEN "running" ELSE "fatal"
        /\ last' = [NoStatement EXCEPT
                      !.op = "select",
                      !.result = IF r.done THEN EXECUTE_SUCCESS ELSE "exit",
                      !.rows = r.rows]
  /\ UNCHANGED <<file0, fill, lo, hi, dups, reopens, stored, ondisk>>
  /\ Step

Btree ==
  /\ status = "running"
  /\ CanStep
  /\ \E r \in {print_tree(pager, 0, 0)} :
        /\ pager' = r.pg
        /\ status' = IF r.pg.fatal THEN "fatal" ELSE "running"
        /\ last' = [NoStatement EXCEPT
                      !.op = "btree",
                      !.result = IF r.pg.fatal THEN "exit" ELSE "META_COMMAND_SUCCESS",
                      !.lines = r.lines]
  /\ UNCHANGED <<file0, fill, lo, hi, dups, reopens, stored, ondisk>>
  /\ Step

\* .exit: db_close, then the process ends
Exit ==
  /\ status = "running"
  /\ CanStep
  /\ pager' = db_close(pager)
  /\ status' = IF pager'.fatal THEN "fatal" ELSE "closed"
  /\ last' = [NoStatement EXCEPT !.op = "exit", !.rows = execute_select(pager).rows]
  /\ ondisk' = stored
  /\ UNCHANGED <<file0, fill, lo, hi, dups, reopens, stored>>
  /\ Step

\* the program is started again on the same file; the new process has its
\* own uninitialized memory
Open ==
  /\ status \in {"closed", "fatal"}
  /\ CanStep
  /\ reopens < MaxReopens
  /\ pager' = db_open(file)
  /\ status' = IF pager'.fatal THEN "fatal" ELSE "running"
  /\ last' = [NoStatement EXCEPT !.op = "open"]
  /\ reopens' = reopens + 1
  /\ stored' = ondisk
  /\ file0' = file
  /\ fill' \in MallocFills
  /\ UNCHANGED <<lo, hi, dups, ondisk, tail>>

Next ==
  \/ InsertAscending
  \/ InsertDescending
  \/ InsertRepeated
  \/ Select
  \/ Btree
  \/ Exit
  \/ Open

Spec == Init /\ [][Next]_vars

(***************************************************************************)
(* The current tree                                                        *)
(***************************************************************************)
TreePages == Reach(pager, root_page_num, MaxDepth)
Node(n) == PageAt(pager, n)
Below(n) == SubtreeKeys(pager, n, MaxDepth)
\* the rows a select would print in this state, and whether it would return
ScanNow == execute_select(pager)

AllKeys == KeysOf(pager)
RootNode == Node(root_page_num)
\* the tree has an internal node below the root
DepthThree ==
  /\ RootNode.type = NODE_INTERNAL
  /\ RootNode.num >= 1
  /\ Node(RootNode.icells[0].child).type = NODE_INTERNAL

(***************************************************************************)
(* Properties                                                              *)
(***************************************************************************)
\* C1: after inserts with distinct ids into an initially empty database, a
\* select prints the stored rows in strictly ascending id order.
C1_SelectAscending ==
  (last.op = "select" /\ dups = 0) =>
     /\ StrictlyIncreasing(RowIds(last.rows))
     /\ {last.rows[i].id : i \in 1 .. Len(last.rows)} = AllKeys

\* C2: the multiset of rows a select prints equals the multiset of rows
\* whose insert returned EXECUTE_SUCCESS.
C2_SelectEmitsStored ==
  last.op = "select" => SeqToBag(last.rows) = stored

\* C3: an insert of an id that is already stored returns
\* EXECUTE_DUPLICATE_KEY and leaves every page and num_pages unchanged.
C3_DuplicateRejected ==
  (last.op = "insert" /\ last.present) =>
     (last.result = EXECUTE_DUPLICATE_KEY /\ last.pages_same)

\* C4: an insert of an id that is not stored returns EXECUTE_SUCCESS and
\* stores the row.
C4_AbsentAccepted ==
  (last.op = "insert" /\ ~last.present) =>
     (last.result = EXECUTE_SUCCESS /\ last.key \in AllKeys)

\* C5: a select terminates normally: the scan ends with end_of_table and
\* execute_select returns EXECUTE_SUCCESS, having fetched only leaves of
\* the tree.
C5_SelectTerminates ==
  last.op = "select" => last.result = EXECUTE_SUCCESS

\* C6: after .exit, opening the file again yields a table whose select
\* prints the row sequence a select printed just before the close, and
\* every page of the tree is in the file.
ScanAfterOpen == execute_select(db_open(pager.file)).rows
TreeOnDisk ==
  /\ Len(pager.file) = pager.num_pages
  /\ \A n \in TreePages : n < Len(pager.file)
  /\ \A n \in TreePages :
       pager.file[n + 1].type = NODE_INTERNAL =>
         \A i \in 1 .. (pager.file[n + 1].num + 1) :
            ChildList(pager.file[n + 1])[i] \in 0 .. (Len(pager.file) - 1)
C6_DurableAcrossClose ==
  status = "closed" => (ScanAfterOpen = last.rows /\ TreeOnDisk)

C6_Witness ==
  /\ last.op = "open"
  /\ Len(file) >= 3
  /\ Len(ScanNow.rows) >= LEAF_NODE_MAX_CELLS + 1

\* C7: between db_open and db_close no operation changes the file: while
\* the program runs, and after a fatal exit, the file is the file as it
\* was at open.
C7_WriteBackOnlyAtClose ==
  status \in {"running", "fatal"} => file = file0

C7_Witness ==
  /\ status = "running"
  /\ last.op = "insert"
  /\ last.result = EXECUTE_SUCCESS
  /\ Len(file) >= 1
  /\ pager.num_pages > Len(file)

\* C8: after every completed insert, in every internal node of the tree the
\* keys are strictly increasing, key[i] is the maximum key stored below
\* child(i), and every key below right_child is greater than the last key.
C8_InternalKeysAreMaxima ==
  status = "running" =>
    \A n \in TreePages : Node(n).type = NODE_INTERNAL =>
      LET nd == Node(n)
      IN /\ \A i \in 0 .. (nd.num - 2) : nd.icells[i].key < nd.icells[i + 1].key
         /\ \A i \in 0 .. (nd.num - 1) :
              LET K == Below(nd.icells[i].child)
              IN K # {} /\ nd.icells[i].key = SetMax(K)
         /\ nd.num > 0 =>
              \A k \in Below(nd.link) : k > nd.icells[nd.num - 1].key

\* C9: after every completed insert, every leaf of the tree has num_cells
\* in 0..LEAF_NODE_MAX_CELLS and every internal node has num_keys in
\* 0..INTERNAL_NODE_MAX_CELLS, a right_child that is not INVALID_PAGE_NUM
\* and num_keys + 1 valid child page numbers.
C9_NodeSizes ==
  status = "running" =>
    \A n \in TreePages :
      LET nd == Node(n)
      IN IF nd.type = NODE_LEAF THEN nd.num \in 0 .. LEAF_NODE_MAX_CELLS
         ELSE /\ nd.type = NODE_INTERNAL
              /\ nd.num \in 0 .. INTERNAL_NODE_MAX_CELLS
              /\ nd.link # INVALID_PAGE_NUM
              /\ \A i \in 1 .. (nd.num + 1) :
                   ChildList(nd)[i] \in 0 .. (pager.num_pages - 1)
              /\ Cardinality({ChildList(nd)[i] : i \in 1 .. (nd.num + 1)}) = nd.num + 1

C9_Witness ==
  /\ status = "running"
  /\ last.op = "insert"
  /\ last.result = EXECUTE_SUCCESS
  /\ \E n \in TreePages : Node(n).type = NODE_LEAF /\ Node(n).num = LEAF_NODE_MAX_CELLS
  /\ \E n \in TreePages :
        Node(n).type = NODE_INTERNAL /\ Node(n).num = INTERNAL_NODE_MAX_CELLS

\* C10: after any sequence of insert statements, repeated ids included, the
\* keys inside every leaf are strictly increasing.
C10_LeafKeysIncreasing ==
  status = "running" =>
    \A n \in TreePages :
      Node(n).type = NODE_LEAF => StrictlyIncreasing(LeafKeys(Node(n)))

(***************************************************************************)
(* The leaf chain                                                          *)
(***************************************************************************)
\* the leaves below page n, from left to right
RECURSIVE LeavesInOrder(_, _, _)
RECURSIVE LeavesOfChildren(_, _, _, _)
LeavesOfChildren(pg, children, i, d) ==
  IF i > Len(children) THEN <<>>
  ELSE LeavesInOrder(pg, children[i], d) \o LeavesOfChildren(pg, children, i + 1, d)

LeavesInOrder(pg, n, d) ==
  IF ~HasPage(pg, n) THEN <<>>
  ELSE IF PageAt(pg, n).type = NODE_LEAF THEN <<n>>
  ELSE IF PageAt(pg, n).type # NODE_INTERNAL \/ d = 0
          \/ PageAt(pg, n).num \notin 0 .. INTERNAL_NODE_MAX_CELLS
    THEN <<>>
  ELSE LeavesOfChildren(pg, ChildList(PageAt(pg, n)), 1, d - 1)

\* the leaves met by following next_leaf from leaf n, up to the leaf whose
\* next_leaf is 0 or is not the number of a leaf page
RECURSIVE LeafChain(_, _, _)
LeafChain(pg, n, fuel) ==
  IF fuel = 0 \/ ~HasPage(pg, n) THEN <<>>
  ELSE IF PageAt(pg, n).type # NODE_LEAF THEN <<>>
  ELSE IF leaf_node_next_leaf(PageAt(pg, n)) = 0 THEN <<n>>
  ELSE <<n>> \o LeafChain(pg, leaf_node_next_leaf(PageAt(pg, n)), fuel - 1)

\* the chain from the leaf table_find(table, 0) lands on, and the leaves
\* of the tree
ChainNow == LeafChain(pager, table_find(pager, 0).v.page_num, MaxScan)
LeavesNow == LeavesInOrder(pager, root_page_num, MaxDepth)

\* C11: after every completed insert, following next_leaf from the leftmost
\* leaf visits every leaf of the tree exactly once, in the tree's left to
\* right order, and every key of a leaf is smaller than every key of the
\* next leaf of the chain.
C11_LeafChainInOrder ==
  status = "running" =>
    /\ ChainNow = LeavesNow
    /\ \A i \in 1 .. (Len(ChainNow) - 1) :
         \A a \in Below(ChainNow[i]) : \A b \in Below(ChainNow[i + 1]) : a < b

(***************************************************************************)
(* The root page                                                           *)
(***************************************************************************)
\* C12: between operations, every page number below num_pages is a page,
\* and the root flag is set in page root_page_num (page 0) and in no other
\* of them.
C12_OneRootPage ==
  status \in {"running", "closed"} =>
    \A n \in 0 .. (pager.num_pages - 1) :
       /\ HasPage(pager, n)
       /\ is_node_root(Node(n)) <=> (n = root_page_num)

\* the root was split as a leaf and as an internal node, and the file was
\* closed and opened again
C12_Witness ==
  /\ status = "running"
  /\ last.op = "insert"
  /\ last.result = EXECUTE_SUCCESS
  /\ reopens = 1
  /\ DepthThree

(***************************************************************************)
(* Filling the page table                                                  *)
(***************************************************************************)
\* a session of insert statements with ascending ids only, long enough for
\* the tree to use every slot of pager->pages
BulkInsert ==
  /\ status = "running"
  /\ hi - lo < MaxBulk
  /\ DoInsert(FreshRow(hi))
  /\ hi' = hi + 1
  /\ UNCHANGED <<lo, dups, tail>>

BulkSpec == Init /\ [][BulkInsert]_vars

\* C13: in no sequence of inserts is a page slot with index
\* TABLE_MAX_PAGES or more installed (get_page exits before it touches the
\* slot), and no insert returns with num_pages above TABLE_MAX_PAGES.
C13_NoSlotBeyondTable ==
  /\ pager.pages[TABLE_MAX_PAGES] = NULL
  /\ status = "running" => pager.num_pages <= TABLE_MAX_PAGES

(***************************************************************************)
(* The end of the leaf chain                                               *)
(***************************************************************************)
\* C14: in every state of a running session the rightmost leaf of the tree
\* (the root while it is a leaf) has next_leaf = 0, the value
\* cursor_advance takes for "no successor"; a leaf that init_leaf_node has
\* just initialized is such a leaf.
C14_LastLeafNextIsZero ==
  status = "running" =>
    /\ LeavesNow # <<>>
    /\ leaf_node_next_leaf(Node(LeavesNow[Len(LeavesNow)])) = 0

(***************************************************************************)
(* The file after db_close                                                 *)
(***************************************************************************)
\* C15: after a single db_close the length of the file is exactly
\* num_pages * PAGE_SIZE, and every page number below num_pages holds a
\* node that was written at this close or was in the file before.
C15_FileLengthAfterClose ==
  status = "closed" =>
    /\ Len(file) * PAGE_SIZE = pager.num_pages * PAGE_SIZE
    /\ \A n \in 1 .. Len(file) : file[n].type \in {NODE_LEAF, NODE_INTERNAL}

\* a close of a reopened file of four or more pages after one insert that
\* added a page: the insert loaded the root, one leaf and the new pages,
\* the other leaves were never loaded
C15_Witness ==
  /\ status = "closed"
  /\ last.op = "exit"
  /\ reopens = 1
  /\ Len(file0) >= 4
  /\ Len(file) > Len(file0)

(***************************************************************************)
(* Rows of all lengths                                                     *)
(***************************************************************************)
\* the row of an insert statement whose username and email have a length
\* that depends on the id: prepare_insert accepts usernames of 1 ..
\* COLUMN_USERNAME_SIZE and emails of 1 .. COLUMN_EMAIL_SIZE characters;
\* id 0 has both maxima
LongRow(k) ==
  [id |-> k,
   username |-> [i \in 1 .. (COLUMN_USERNAME_SIZE - ((k * 11) % COLUMN_USERNAME_SIZE)) |->
                   1 + ((k + i) % 7)],
   email |-> [i \in 1 .. (COLUMN_EMAIL_SIZE - ((k * 37) % COLUMN_EMAIL_SIZE)) |->
                1 + ((k + 2 * i) % 5)]]

\* an insert statement with the next ascending or descending id
RowInsert ==
  /\ status = "running"
  /\ CanStep
  /\ hi - lo < MaxRows
  /\ \E k \in {hi} \cup (IF lo > 0 THEN {lo - 1} ELSE {}) :
        /\ DoInsert(LongRow(k))
        /\ hi' = IF k = hi THEN hi + 1 ELSE hi
        /\ lo' = IF k = hi THEN lo ELSE lo - 1
  /\ UNCHANGED dups
  /\ Step

RowSpec == Init /\ [][RowInsert \/ InsertRepeated \/ Select \/ Exit \/ Open]_vars

\* C16: a select prints a row for every stored id, and every row it prints
\* has the id, the username and the email of a successful insert of that
\* id, whatever their lengths, after splits and after close and reopen.
C16_RowsRoundTrip ==
  last.op = "select" =>
    /\ \A r \in BagToSet(stored) : \E i \in 1 .. Len(last.rows) : last.rows[i].id = r.id
    /\ \A i \in 1 .. Len(last.rows) :
          \E r \in BagToSet(stored) :
             /\ last.rows[i].id = r.id
             /\ last.rows[i].username = r.username
             /\ last.rows[i].email = r.email

\* a select on a reopened file whose tree has split, printing a row with a
\* username of COLUMN_USERNAME_SIZE and an email of COLUMN_EMAIL_SIZE
\* characters
C16_Witness ==
  /\ last.op = "select"
  /\ reopens = 1
  /\ RootNode.type = NODE_INTERNAL
  /\ Len(last.rows) > LEAF_NODE_MAX_CELLS
  /\ \E i \in 1 .. Len(last.rows) :
        /\ Len(last.rows[i].username) = COLUMN_USERNAME_SIZE
        /\ Len(last.rows[i].email) = COLUMN_EMAIL_SIZE
        /\ last.rows[i] \in BagToSet(stored)

(***************************************************************************)
(* The page count                                                          *)
(***************************************************************************)
\* the page numbers get_page is tried with in every state
ProbePages == {0, pager.num_pages - 1, pager.num_pages, pager.num_pages + 1, TABLE_MAX_PAGES, TABLE_MAX_PAGES + 1, INVALID_PAGE_NUM}

\* C17: num_pages never decreases during a session: no statement and no
\* .exit lowers it, get_page leaves it equal or larger for any page
\* number, and get_unused_page_num raises it by one and returns the
\* previous num_pages, which no node of the tree uses.
C17_NumPagesNeverDecreases ==
  /\ [](status = "running" =>
          /\ \A n \in ProbePages : get_page(pager, n).num_pages >= pager.num_pages
          /\ get_unused_page_num(pager).pg.num_pages = pager.num_pages + 1
          /\ get_unused_page_num(pager).v = pager.num_pages
          /\ get_unused_page_num(pager).v \notin TreePages)
  /\ [][last'.op # "open" => pager'.num_pages >= pager.num_pages]_vars

\* an insert into a reopened file has loaded part of the pages and
\* allocated new ones
C17_Witness ==
  /\ status = "running"
  /\ last.op = "insert"
  /\ reopens = 1
  /\ Len(file) >= 4
  /\ pager.num_pages > Len(file)
  /\ \E n \in 0 .. (Len(file) - 1) : pager.pages[n] = NULL

(***************************************************************************)
(* Opening files of any length                                             *)
(***************************************************************************)
\* between two runs of the program something else appends bytes to the
\* closed file, less than a page of them
Damage ==
  /\ status = "closed"
  /\ FileLength(file) % PAGE_SIZE = 0
  /\ \E b \in {1, PAGE_SIZE - 1} :
        pager' = [pager EXCEPT !.file = Append(@, [type |-> "partial", bytes |-> b])]
  /\ last' = [NoStatement EXCEPT !.op = "damage"]
  /\ UNCHANGED <<fill, status, lo, hi, dups, reopens, tail, stored, ondisk, file0>>

OpenSpec == Init /\ [][InsertAscending \/ Select \/ Exit \/ Damage \/ Open]_vars

\* C18: db_open of a file whose length is not a multiple of PAGE_SIZE ends
\* in the fatal exit; of a file of whole pages it yields a table with
\* num_pages = length / PAGE_SIZE and, unless the file is empty, every page
\* slot empty; of an empty file it yields page 0 loaded as an empty leaf
\* with the root flag set.
C18_OpenByFileLength ==
  last.op \in {"none", "open"} =>
    IF FileLength(file) % PAGE_SIZE # 0
      THEN status = "fatal" /\ pager.fatal
    ELSE IF FileLength(file) = 0
      THEN /\ status = "running"
           /\ pager.num_pages = 1
           /\ pager.pages[root_page_num] # NULL
           /\ get_node_type(pager.pages[root_page_num]) = NODE_LEAF
           /\ leaf_node_num_cells(pager.pages[root_page_num]) = 0
           /\ is_node_root(pager.pages[root_page_num])
           /\ \A n \in PageIdx \ {root_page_num} : pager.pages[n] = NULL
    ELSE /\ status = "running"
         /\ pager.num_pages * PAGE_SIZE = FileLength(file)
         /\ \A n \in PageIdx : pager.pages[n] = NULL

\* the program was started on a file of four pages and a partial one
C18_Witness ==
  /\ last.op = "open"
  /\ Len(file) >= 5
  /\ FileLength(file) % PAGE_SIZE # 0
  /\ status = "fatal"

(***************************************************************************)
(* table_find                                                              *)
(***************************************************************************)
\* C19: in every state of a running session, for every key from 0 to the
\* next fresh id, table_find returns a cursor on a leaf of the tree such
\* that every key in the leaves to its left and in the cells before the
\* cursor is smaller than key, and every key in the cells from the cursor
\* on and in the leaves to its right is greater or equal: the first cell
\* with a key >= key, one past the end if there is none; for a stored key
\* the cell under the cursor holds that key.
C19_FindFirstNotSmaller ==
  status = "running" =>
    \A key \in 0 .. (hi + 1) :
      LET found == table_find(pager, key)
          leaf == found.v.page_num
          cell_num == found.v.cell_num
      IN /\ ~found.pg.fatal
         /\ \E pos \in 1 .. Len(LeavesNow) :
              /\ LeavesNow[pos] = leaf
              /\ cell_num \in 0 .. leaf_node_num_cells(Node(leaf))
              /\ \A p \in 1 .. Len(LeavesNow) :
                    \A j \in 0 .. (leaf_node_num_cells(Node(LeavesNow[p])) - 1) :
                       IF p < pos \/ (p = pos /\ j < cell_num)
                         THEN Node(LeavesNow[p]).cells[j].key < key
                         ELSE Node(LeavesNow[p]).cells[j].key >= key
         /\ key \in AllKeys =>
              /\ cell_num < leaf_node_num_cells(Node(leaf))
              /\ Node(leaf).cells[cell_num].key = key

(***************************************************************************)
(* Splitting a leaf at any position                                        *)
(***************************************************************************)
\* a session that inserts the even ids 2 * Pivot, 2 * Pivot + 2, ... in
\* ascending order and, once, an odd id before, between or after them
SplitInsert ==
  /\ status = "running"
  /\ hi - lo < MaxEven
  /\ \E k \in {2 * hi} \cup (IF \A x \in AllKeys : x % 2 = 0
                               THEN {2 * j - 1 : j \in lo .. hi} ELSE {}) :
        /\ DoInsert(FreshRow(k))
        /\ hi' = IF k = 2 * hi THEN hi + 1 ELSE hi
  /\ UNCHANGED <<lo, dups, tail>>

SplitSpec == Init /\ [][SplitInsert]_vars

\* C20: in every state of a running session and for every absent odd key
\* whose leaf is full (LEAF_NODE_MAX_CELLS cells), at whatever cell the
\* cursor of table_find stands, leaf_node_split_and_insert, unless the
\* process exits in it, leaves one leaf more; the leaf at the old leaf's
\* place holds the LEAF_NODE_LEFT_SPLIT_COUNT smallest and the next leaf the
\* LEAF_NODE_RIGHT_SPLIT_COUNT largest of the old cells and the new one, in
\* ascending key order, every key with its own row.
C20_SplitHalvesInOrder ==
  status = "running" =>
    \A key \in {2 * j - 1 : j \in lo .. hi} \ AllKeys :
      LET found == table_find(pager, key)
          cursor == found.v
          old == found.pg.pages[cursor.page_num]
          after == leaf_node_split_and_insert(found.pg, cursor, key, FreshRow(key))
          cells == [i \in 1 .. (LEAF_NODE_MAX_CELLS + 1) |->
                      IF i - 1 < cursor.cell_num THEN old.cells[i - 1]
                      ELSE IF i - 1 = cursor.cell_num
                        THEN [key |-> key, value |-> serialize_row(FreshRow(key))]
                      ELSE old.cells[i - 2]]
          leaves == LeavesInOrder(after, root_page_num, MaxDepth)
      IN (leaf_node_num_cells(old) = LEAF_NODE_MAX_CELLS /\ ~after.fatal) =>
           /\ StrictlyIncreasing([i \in 1 .. Len(cells) |-> cells[i].key])
           /\ Len(leaves) = Len(LeavesNow) + 1
           /\ \E pos \in 1 .. Len(LeavesNow) :
                /\ LeavesNow[pos] = cursor.page_num
                /\ leaf_node_num_cells(PageAt(after, leaves[pos])) = LEAF_NODE_LEFT_SPLIT_COUNT
                /\ leaf_node_num_cells(PageAt(after, leaves[pos + 1])) = LEAF_NODE_RIGHT_SPLIT_COUNT
                /\ \A i \in 1 .. LEAF_NODE_LEFT_SPLIT_COUNT :
                      PageAt(after, leaves[pos]).cells[i - 1] = cells[i]
                /\ \A i \in 1 .. LEAF_NODE_RIGHT_SPLIT_COUNT :
                      PageAt(after, leaves[pos + 1]).cells[i - 1]
                        = cells[LEAF_NODE_LEFT_SPLIT_COUNT + i]

\* the last insert split a full leaf that was not the root, with the cursor
\* in the middle of it: its odd key is now the last of the left half
C20_Witness ==
  /\ status = "running"
  /\ last.op = "insert"
  /\ last.result = EXECUTE_SUCCESS
  /\ last.key % 2 = 1
  /\ Len(LeavesNow) = 3
  /\ leaf_node_num_cells(Node(LeavesNow[2])) = LEAF_NODE_LEFT_SPLIT_COUNT
  /\ leaf_node_num_cells(Node(LeavesNow[3])) = LEAF_NODE_RIGHT_SPLIT_COUNT
  /\ Node(LeavesNow[2]).cells[LEAF_NODE_LEFT_SPLIT_COUNT - 1].key = last.key

(***************************************************************************)
(* Growing a deep tree                                                     *)
(***************************************************************************)
\* the ids after which the second run of ids starts, as multiples of
\* DeepGap: one below each of the four children the root has by then
DeepAts == {5, 20, 40, 60}

\* the id of insert statement number k (from 0) of a session whose second
\* run starts above at * DeepGap
DeepKey(k, at) ==
  IF k < DeepFirst THEN DeepGap * (k + 1) ELSE DeepGap * at + (k - DeepFirst + 1)

\* the next insert statement of the session; lo keeps the start of the
\* second run once it is chosen
DeepInsert ==
  /\ status = "running"
  /\ hi - Pivot < MaxDeep
  /\ \E at \in (IF hi - Pivot = DeepFirst THEN DeepAts ELSE {lo}) :
        /\ DoInsert(FreshRow(DeepKey(hi - Pivot, at)))
        /\ lo' = at
  /\ hi' = hi + 1
  /\ UNCHANGED <<dups, tail>>

DeepSpec == Init /\ [][DeepInsert \/ Select]_vars

(***************************************************************************)
(* create_new_root                                                         *)
(***************************************************************************)
\* the calls of fn that returned in the current insert statement without
\* the process having exited
Calls(fn) ==
  {pager.calls[c] : c \in {i \in 1 .. Len(pager.calls) :
                             pager.calls[i].fn = fn /\ ~pager.calls[i].after.fatal}}

\* C21: after create_new_root(table, right_child_page), page 0 is an
\* internal node with the root flag set and num_keys = 1; child[0] is a
\* freshly allocated page that holds the old root's content with the root
\* flag cleared; key[0] is the maximum key of the left subtree; right_child
\* is right_child_page; both children have parent = 0.  The old root may
\* have been a leaf or an internal node.
C21_NewRootOverOldRoot ==
  \A call \in Calls("create_new_root") :
    LET old_root == PageAt(call.before, root_page_num)
        root == call.after.pages[root_page_num]
        left_page_num == call.before.num_pages
        left == call.after.pages[left_page_num]
        right_page_num == call.args[1]
    IN /\ old_root.type \in {NODE_LEAF, NODE_INTERNAL}
       /\ root.type = NODE_INTERNAL
       /\ root.is_root
       /\ root.num = 1
       /\ root.icells[0].child = left_page_num
       /\ ~HasPage(call.before, left_page_num)
       /\ call.after.num_pages = left_page_num + 1
       /\ left = [old_root EXCEPT !.is_root = FALSE, !.parent = root_page_num]
       /\ SubtreeKeys(call.after, left_page_num, MaxDepth) # {}
       /\ root.icells[0].key = SetMax(SubtreeKeys(call.after, left_page_num, MaxDepth))
       /\ root.link = right_page_num
       /\ right_page_num # left_page_num
       /\ call.after.pages[right_page_num].parent = root_page_num

\* the last insert split a root that was an internal node with
\* INTERNAL_NODE_MAX_CELLS keys
C21_Witness ==
  /\ status = "running"
  /\ last.op = "insert"
  /\ \E call \in Calls("create_new_root") :
        /\ PageAt(call.before, root_page_num).type = NODE_INTERNAL
        /\ PageAt(call.before, root_page_num).num = INTERNAL_NODE_MAX_CELLS
        /\ call.after.pages[call.before.num_pages].num = INTERNAL_NODE_MAX_CELLS

(***************************************************************************)
(* internal_node_split_and_insert                                          *)
(***************************************************************************)
\* C22: when internal_node_insert is called on a full internal node
\* (INTERNAL_NODE_MAX_CELLS keys, one child more) with a fifth child, then
\* after internal_node_split_and_insert each of the five children is a child
\* of exactly one of the two resulting nodes old and new, none is lost or
\* listed twice, every child of old has a smaller maximum key than every
\* child of new, and new is a child of old's parent (the re-created root
\* when the root was split).
C22_SplitKeepsFiveChildren ==
  \A call \in Calls("internal_node_split_and_insert") :
    LET node == PageAt(call.before, call.args[1])
        five == {ChildList(node)[i] : i \in 1 .. (node.num + 1)} \cup {call.args[2]}
        new_page_num == call.before.num_pages
        old_page_num == IF node.is_root THEN new_page_num + 1 ELSE call.args[1]
        old == call.after.pages[old_page_num]
        new == call.after.pages[new_page_num]
        of_old == {ChildList(old)[i] : i \in 1 .. (old.num + 1)}
        of_new == {ChildList(new)[i] : i \in 1 .. (new.num + 1)}
        parent == PageAt(call.after, old.parent)
    IN (node.num = INTERNAL_NODE_MAX_CELLS /\ Cardinality(five) = INTERNAL_NODE_MAX_CELLS + 2) =>
         /\ old.type = NODE_INTERNAL /\ new.type = NODE_INTERNAL
         /\ of_old \cup of_new = five
         /\ (old.num + 1) + (new.num + 1) = Cardinality(five)
         /\ \A a \in of_old : \A b \in of_new :
               SetMax(SubtreeKeys(call.after, a, MaxDepth))
                 < SetMax(SubtreeKeys(call.after, b, MaxDepth))
         /\ parent.type = NODE_INTERNAL
         /\ new_page_num \in {ChildList(parent)[i] : i \in 1 .. (parent.num + 1)}

(***************************************************************************)
(* Parent pointers                                                         *)
(***************************************************************************)
\* C23: after every completed insert, the parent pointer of every non-root
\* node of the tree is the page number of the internal node that lists it
\* as a child, in a cell or as right_child; this includes the new sibling of
\* an internal split whose insertion into the grandparent splits the
\* grandparent.
C23_ParentPointers ==
  status = "running" =>
    \A n \in TreePages : Node(n).type = NODE_INTERNAL =>
      \A i \in 1 .. (Node(n).num + 1) :
         node_parent(Node(ChildList(Node(n))[i])) = n

(***************************************************************************)
(* The shape of the tree                                                   *)
(***************************************************************************)
\* the depths at which the walk from page n, itself at depth d, ends: the
\* depth of every leaf, and -1 for a page that is no node or lies deeper
\* than MaxDepth
RECURSIVE LeafDepths(_, _, _)
LeafDepths(pg, n, d) ==
  IF ~HasPage(pg, n) THEN {0 - 1}
  ELSE IF PageAt(pg, n).type = NODE_LEAF THEN {d}
  ELSE IF PageAt(pg, n).type # NODE_INTERNAL \/ d >= MaxDepth
          \/ PageAt(pg, n).num \notin 0 .. INTERNAL_NODE_MAX_CELLS
    THEN {0 - 1}
  ELSE UNION {LeafDepths(pg, ChildList(PageAt(pg, n))[i], d + 1) :
                i \in 1 .. (PageAt(pg, n).num + 1)}

\* C24: after every completed insert the tree is balanced: every leaf of
\* the tree is at the same depth, and the children of an internal node are
\* all leaves or all internal nodes.
C24_Balanced ==
  status = "running" =>
    /\ \E d \in 0 .. MaxDepth : LeafDepths(pager, root_page_num, 0) = {d}
    /\ \A n \in TreePages : Node(n).type = NODE_INTERNAL =>
          \/ \A i \in 1 .. (Node(n).num + 1) :
                Node(ChildList(Node(n))[i]).type = NODE_LEAF
          \/ \A i \in 1 .. (Node(n).num + 1) :
                Node(ChildList(Node(n))[i]).type = NODE_INTERNAL

\* the last insert made the tree one level deeper: all leaves are three
\* levels below the root
C24_Witness ==
  /\ status = "running"
  /\ last.op = "insert"
  /\ LeafDepths(pager, root_page_num, 0) = {3}
  /\ Cardinality(Calls("create_new_root")) = 1

\* the (node, position) places of the tree that hold a child page number
Listings ==
  {l \in TreePages \X (1 .. (INTERNAL_NODE_MAX_CELLS + 1)) :
     Node(l[1]).type = NODE_INTERNAL /\ l[2] <= Node(l[1]).num + 1}

\* C25: after every completed insert the pages form a tree over exactly
\* the allocated pages: every page number below num_pages is reached from
\* page 0 through child and right_child pointers, no page is listed as a
\* child twice, in one node or in two, and every stored child or next_leaf
\* page number that is not a sentinel is below num_pages.
C25_TreeOverAllocatedPages ==
  status = "running" =>
    LET listed == {ChildList(Node(l[1]))[l[2]] : l \in Listings}
    IN /\ TreePages = 0 .. (pager.num_pages - 1)
       /\ Cardinality(listed) = Cardinality(Listings)
       /\ root_page_num \notin listed
       /\ \A c \in listed : c = INVALID_PAGE_NUM \/ c \in 0 .. (pager.num_pages - 1)
       /\ \A n \in TreePages : Node(n).type = NODE_LEAF =>
             \/ leaf_node_next_leaf(Node(n)) \in {0, INVALID_PAGE_NUM}
             \/ leaf_node_next_leaf(Node(n)) \in 0 .. (pager.num_pages - 1)

\* the last insert split a leaf, its parent and the root, which took three
\* new pages
C25_Witness ==
  /\ status = "running"
  /\ last.op = "insert"
  /\ Cardinality(Calls("internal_node_split_and_insert")) = 2
  /\ Cardinality(Calls("create_new_root")) = 1
  /\ pager.num_pages = Cardinality(TreePages)
  /\ Cardinality(Listings) = pager.num_pages - 1

(***************************************************************************)
(* The first split                                                         *)
(***************************************************************************)
\* C26: starting from an empty database, the root stays a leaf while at
\* most LEAF_NODE_MAX_CELLS ids have been inserted, in any order; the next
\* successful insert splits it, after which page 0 is an internal node with
\* one key and two leaf children of LEAF_NODE_LEFT_SPLIT_COUNT and
\* LEAF_NODE_RIGHT_SPLIT_COUNT (7 and 7) cells, and from then on the root
\* is an internal node.
C26_FirstSplitAtFourteen ==
  status = "running" =>
    LET n == BagCardinality(stored)
        left == Node(RootNode.icells[0].child)
        right == Node(internal_node_right_child(RootNode))
    IN /\ n <= LEAF_NODE_MAX_CELLS =>
            (RootNode.type = NODE_LEAF /\ leaf_node_num_cells(RootNode) = n)
       /\ n > LEAF_NODE_MAX_CELLS => RootNode.type = NODE_INTERNAL
       /\ n = LEAF_NODE_MAX_CELLS + 1 =>
            /\ internal_node_num_keys(RootNode) = 1
            /\ left.type = NODE_LEAF /\ right.type = NODE_LEAF
            /\ leaf_node_num_cells(left) = 7 /\ leaf_node_num_cells(right) = 7
            /\ LeafDepths(pager, root_page_num, 0) = {1}

\* the last insert was the one that split the root leaf, after ids
\* inserted both in ascending and in descending order
C26_Witness ==
  /\ status = "running"
  /\ last.op = "insert"
  /\ last.result = EXECUTE_SUCCESS
  /\ BagCardinality(stored) = LEAF_NODE_MAX_CELLS + 1
  /\ lo < Pivot /\ hi > Pivot + 1
  /\ Cardinality(Calls("create_new_root")) = 1

(***************************************************************************)
(* Read operations                                                         *)
(***************************************************************************)
\* C27: read operations are read-only: table_find and table_start on any
\* reachable table, and a select (table_start, cursor_value and
\* cursor_advance) or .btree statement, leave the contents of every page,
\* the tree and num_pages as they were, with the table still there for the
\* next statement, so that a select between two inserts does not change
\* what a later insert or select does.
C27_ReadsChangeNothing ==
  /\ [](status = "running" =>
          /\ \A k \in (lo - 1) .. hi :
                /\ PagesOf(table_find(pager, k).pg) = PagesOf(pager)
                /\ table_find(pager, k).pg.num_pages = pager.num_pages
          /\ PagesOf(table_start(pager).pg) = PagesOf(pager)
          /\ table_start(pager).pg.num_pages = pager.num_pages)
  /\ [][last'.op \in {"select", "btree"} =>
          /\ status' = "running"
          /\ PagesOf(pager') = PagesOf(pager)
          /\ pager'.num_pages = pager.num_pages
          /\ TreePages' = TreePages]_vars

====
